---- MODULE Spec2Model ----
(***************************************************************************)
(* Circles service (src/src/circles/circles.service.ts): the lifecycle of  *)
(* one circle document, its members and handRaises sub-collections, the    *)
(* deferred host-disconnection checks and the LiveKit webhook handlers.    *)
(*                                                                         *)
(* The store holds one circle id in full, and of the host's further        *)
(* circles what the daily-limit query reads.  Every handler is one action: *)
(* the reads, the checks and the writes of the handler in the order of the *)
(* code.  joinCircle and handleTrackUnpublished are also given one await   *)
(* at a time, for the specifications that run several of them at once.     *)
(***************************************************************************)
EXTENDS Integers, FiniteSets, Sequences, TLC

\* ---------------------------------------------------------------- bounds
MaxTimers == 2          \* deferred host-disconnection checks pending at once
MaxRejoin == 1          \* cap of member.rejoinCount
MaxRoleChange == 1      \* cap of member.roleChangeCount
MaxCount == 3           \* participantCount stays <= MaxCount
MaxDeficit == 1         \* participantCount stays >= -MaxDeficit
MaxTime == 2            \* the clock stops at MaxTime
MaxStored == 5          \* further circle documents of the host stored at once
MaxPending == 1         \* createCircle requests between their query and their writes
MaxSucceeded == 6       \* createCircle calls counted per calendar day
MaxQueue == 2           \* webhook events waiting for their setImmediate callback

\* ------------------------------------------------------------- constants
NULL == 0 - 1           \* null / undefined of a timestamp or of an optional number
UNDEF == "undefined"    \* an optional string field left out of a request
DefaultMaxSpeakers == 8
DailyLimit == 5         \* circles a host may create per day
DayLength == 2          \* clock units from one local midnight to the next

Host == "h"
Users == {"h", "u1", "u2"}
KnownUsers == {"h", "u1"}       \* documents of the users collection
Callers == {"h", "u1"}          \* authenticated callers of the REST commands
Titles == {"t1", "t2"}
Statuses == {"scheduled", "live", "ended"}
Roles == {"listener", "speaker", "host"}
Calls == {"c1", "c2"}           \* requests and handlers the server runs at once

VARIABLES
    circle,         \* the document circles/{id}
    members,        \* the documents circles/{id}/members/{uid}
    handRaises,     \* the ids of the documents circles/{id}/handRaises/{uid}
    timers,         \* number of armed setTimeout checks of handleHostDisconnection
    tokens,         \* users a LiveKit token of this room was minted for
    created,        \* the circle id has been allocated
    now,            \* the clock (Timestamp.now(), Date.now())
    others,         \* the host's further circle documents: how many per createdAt
    pending,        \* createCircle requests past the daily-limit query: how many per createdAt
    succeeded,      \* createCircle calls of the host that succeeded, per calendar day
    queue,          \* verified webhook events whose setImmediate callback has not run
    calls,          \* the requests and handlers in flight: where each stands and what it has read
    last            \* the last command or event and what it returned

quota == <<others, pending, succeeded>>

vars == <<circle, members, handRaises, timers, tokens, created, now, others, pending,
          succeeded, queue, calls, last>>

\* --------------------------------------------------------------- records
NoCircle ==
    [exists |-> FALSE, hostUid |-> "none", title |-> "none", startAt |-> NULL,
     status |-> "none", maxSpeakers |-> NULL, createdAt |-> NULL, participantCount |-> 0,
     endedAt |-> NULL, endReason |-> "null", hostDisconnectedAt |-> NULL]

NoMember ==
    [exists |-> FALSE, role |-> "none", isMuted |-> FALSE, joinedAt |-> NULL,
     status |-> "none", leftAt |-> NULL, disconnectedAt |-> NULL,
     rejoinCount |-> 0, totalSpeakTime |-> 0, handRaiseCount |-> 0,
     roleChangeCount |-> 0, lastSpokeAt |-> NULL]

NewMember(role, t) ==
    [exists |-> TRUE, role |-> role, isMuted |-> (role = "listener"), joinedAt |-> t,
     status |-> "active", leftAt |-> NULL, disconnectedAt |-> NULL,
     rejoinCount |-> 0, totalSpeakTime |-> 0, handRaiseCount |-> 0,
     roleChangeCount |-> 0, lastSpokeAt |-> NULL]

\* a request or handler that is not running, and the locals of one that is
NoCall ==
    [pc |-> "idle", userId |-> "none", role |-> UNDEF, circle |-> NoCircle,
     existingMember |-> NoMember, speakDuration |-> 0]

Result(op, user, arg, result, from, role) ==
    [op |-> op, user |-> user, arg |-> arg, result |-> result, from |-> from, role |-> role,
     ret |-> "none"]

\* ------------------------------------------------------ status transitions
validStatusTransitions ==
    [scheduled |-> <<"live", "ended">>, live |-> <<"ended">>, ended |-> <<>>]

includes(seq, x) == \E i \in DOMAIN seq : seq[i] = x

\* faulty variant: the table also lets an ended circle go live again
isValidStatusTransitionReopen(currentStatus, newStatus) ==
    \/ /\ currentStatus \in DOMAIN validStatusTransitions
       /\ includes(validStatusTransitions[currentStatus], newStatus)
    \/ currentStatus = "ended" /\ newStatus = "live"

isValidStatusTransition(currentStatus, newStatus) ==
    /\ currentStatus \in DOMAIN validStatusTransitions
    /\ includes(validStatusTransitions[currentStatus], newStatus)

\* faulty variant: a start time equal to the clock already counts as future
statusForInclusive(startAt, t) == IF startAt # NULL /\ startAt >= t THEN "scheduled" ELSE "live"

\* status a start time gives: 'scheduled' if it lies in the future, else 'live'
statusFor(startAt, t) == IF startAt # NULL /\ startAt > t THEN "scheduled" ELSE "live"

\* ------------------------------------------------------------ daily limit
Times == 0..MaxTime

\* startOfDay.setHours(0, 0, 0, 0): the local midnight before t
startOfDay(t) == t - (t % DayLength)

Days == {startOfDay(t) : t \in Times}

RECURSIVE Sum(_, _)
Sum(f, S) == IF S = {} THEN 0 ELSE LET t == CHOOSE x \in S : TRUE IN f[t] + Sum(f, S \ {t})

\* circlesSnap.size: the stored circles with hostUid == userId and
\* createdAt >= startOfDayTs (others holds documents of Host only)
circlesSnapSize(userId) ==
    (IF circle.exists /\ circle.hostUid = userId /\ circle.createdAt # NULL
        /\ circle.createdAt >= startOfDay(now) THEN 1 ELSE 0)
    + (IF userId = Host
       THEN Sum(others, {t \in Times : t >= startOfDay(now)})
       ELSE 0)

\* faulty variant: the query has no createdAt filter
dailyLimitReachedEver(userId) ==
    (IF circle.exists /\ circle.hostUid = userId THEN 1 ELSE 0)
    + (IF userId = Host THEN Sum(others, Times) ELSE 0) >= DailyLimit

\* Check daily limit
dailyLimitReached(userId) == circlesSnapSize(userId) >= DailyLimit

\* ------------------------------------------------------------------ Init
Init ==
    /\ circle = NoCircle
    /\ members = [u \in Users |-> NoMember]
    /\ handRaises = {}
    /\ timers = 0
    /\ tokens = {}
    /\ created = FALSE
    /\ now = 0
    /\ others = [t \in Times |-> 0]
    /\ pending = [t \in Times |-> 0]
    /\ succeeded = [d \in Days |-> 0]
    /\ queue = {}
    /\ calls = [c \in Calls |-> NoCall]
    /\ last = Result("init", "none", "none", "none", "none", "none")

\* --------------------------------------------------------------- commands
\* an event handler that throws before any write: only the outcome is recorded
Thrown(op, userId, arg, result, from) ==
    /\ last' = Result(op, userId, arg, result, from, "none")
    /\ UNCHANGED <<circle, members, handRaises, timers, tokens, created, now, quota>>

\* a command that throws before any write
Rejected(op, userId, arg, result, from) ==
    /\ Thrown(op, userId, arg, result, from)
    /\ UNCHANGED <<queue, calls>>

\* 1. Create Circle
createCircle(userId, title, startAtIn, maxSpeakersIn) ==
    /\ ~created
    /\ IF dailyLimitReached(userId)
       THEN Rejected("createCircle", userId, "none", "DailyLimit", "none")
       ELSE
       /\ succeeded[startOfDay(now)] < MaxSucceeded
       /\ created' = TRUE
       /\ circle' =
            [exists |-> TRUE, hostUid |-> userId, title |-> title,
             startAt |-> IF startAtIn # NULL THEN startAtIn ELSE now,
             status |-> statusFor(startAtIn, now),
             maxSpeakers |-> IF maxSpeakersIn # NULL THEN maxSpeakersIn
                             ELSE DefaultMaxSpeakers,
             createdAt |-> now,
             participantCount |-> 1,
             endedAt |-> NULL, endReason |-> "null", hostDisconnectedAt |-> NULL]
       /\ members' = [members EXCEPT
                        ![userId] = [NewMember("host", now) EXCEPT !.isMuted = FALSE]]
       /\ tokens' = tokens \cup {userId}
       /\ succeeded' = [succeeded EXCEPT ![startOfDay(now)] = @ + 1]
       /\ last' = Result("createCircle", userId, "none", "ok", "none", "host")
       /\ UNCHANGED <<handRaises, timers, now, others, pending, queue, calls>>

\* createCircle of a further circle id, scheduled for later.  Of such a circle
\* the model keeps what the daily-limit query reads (hostUid, createdAt) and
\* that it is scheduled.  The query and the writes are two steps, so that a
\* second request can run between them.
createCircleCheck(userId) ==
    IF dailyLimitReached(userId)
    THEN Rejected("createCircleCheck", userId, "none", "DailyLimit", "none")
    ELSE
    /\ Sum(pending, Times) < MaxPending
    /\ pending' = [pending EXCEPT ![now] = @ + 1]
    /\ last' = Result("createCircleCheck", userId, "none", "ok", "none", "none")
    /\ UNCHANGED <<circle, members, handRaises, timers, tokens, created, now, others,
                   succeeded, queue, calls>>

\* circleRef.set and the host's member document, createdAt being the clock
\* read at the start of the request
createCircleWrite(userId, createdAt) ==
    /\ pending[createdAt] > 0
    /\ Sum(others, Times) < MaxStored
    /\ succeeded[startOfDay(createdAt)] < MaxSucceeded
    /\ pending' = [pending EXCEPT ![createdAt] = @ - 1]
    /\ others' = [others EXCEPT ![createdAt] = @ + 1]
    /\ succeeded' = [succeeded EXCEPT ![startOfDay(createdAt)] = @ + 1]
    /\ last' = Result("createCircleWrite", userId, "none", "ok", "none", "host")
    /\ UNCHANGED <<circle, members, handRaises, timers, tokens, created, now, queue, calls>>

\* A circle document written straight to the store by its owner, which the
\* security rules allow: no member document is written with it.
clientCreate(userId, title) ==
    /\ ~created
    /\ created' = TRUE
    /\ circle' =
         [exists |-> TRUE, hostUid |-> userId, title |-> title, startAt |-> now + 1,
          status |-> "scheduled", maxSpeakers |-> DefaultMaxSpeakers,
          createdAt |-> now, participantCount |-> 0,
          endedAt |-> NULL, endReason |-> "null", hostDisconnectedAt |-> NULL]
    /\ last' = Result("clientCreate", userId, "none", "ok", "none", "none")
    /\ UNCHANGED <<members, handRaises, timers, tokens, now, quota, queue, calls>>

\* 2. Update Circle.  title stands for the fields copied as they come (title,
\* description, category, privacy, coverUrl, isReplay).
updateCircle(userId, titleIn, startAtIn) ==
    IF ~circle.exists THEN Rejected("updateCircle", userId, "none", "NotFound", "none")
    ELSE IF circle.hostUid # userId
    THEN Rejected("updateCircle", userId, "none", "Forbidden", "none")
    ELSE IF titleIn = UNDEF /\ startAtIn = NULL
    THEN Rejected("updateCircle", userId, "none", "StoreError", "none")
    ELSE
    /\ circle' =
         [circle EXCEPT
            !.title = IF titleIn # UNDEF THEN titleIn ELSE @,
            !.startAt = IF startAtIn # NULL THEN startAtIn ELSE @,
            !.status = IF startAtIn # NULL THEN statusFor(startAtIn, now) ELSE @]
    /\ last' = Result("updateCircle", userId, "none", "ok", circle.status, "none")
    /\ UNCHANGED <<members, handRaises, timers, tokens, created, now, quota, queue, calls>>

\* 3. Update Circle Status
updateCircleStatus(userId, newStatus) ==
    IF ~circle.exists THEN Rejected("updateCircleStatus", userId, newStatus, "NotFound", "none")
    ELSE IF circle.hostUid # userId
    THEN Rejected("updateCircleStatus", userId, newStatus, "Forbidden", "none")
    ELSE IF ~isValidStatusTransition(circle.status, newStatus)
    THEN Rejected("updateCircleStatus", userId, newStatus, "InvalidTransition", circle.status)
    ELSE
    /\ circle' =
         [circle EXCEPT
            !.status = newStatus,
            !.endedAt = IF newStatus = "ended" THEN now ELSE @]
    /\ last' = Result("updateCircleStatus", userId, newStatus, "ok", circle.status, "none")
    /\ UNCHANGED <<members, handRaises, timers, tokens, created, now, quota, queue, calls>>

\* faulty variant: only a live circle can be ended
endCircleLiveOnly(userId) ==
    IF ~circle.exists THEN Rejected("endCircle", userId, "none", "NotFound", "none")
    ELSE IF circle.hostUid # userId
    THEN Rejected("endCircle", userId, "none", "Forbidden", "none")
    ELSE IF ~includes(<<"live">>, circle.status)
    THEN Rejected("endCircle", userId, "none", "InvalidState", circle.status)
    ELSE
    /\ circle' =
         [circle EXCEPT !.status = "ended", !.endedAt = now, !.endReason = "host_ended"]
    /\ last' = Result("endCircle", userId, "none", "ok", circle.status, "none")
    /\ UNCHANGED <<members, handRaises, timers, tokens, created, now, quota, queue, calls>>

\* 4. End Circle
endCircle(userId) ==
    IF ~circle.exists THEN Rejected("endCircle", userId, "none", "NotFound", "none")
    ELSE IF circle.hostUid # userId
    THEN Rejected("endCircle", userId, "none", "Forbidden", "none")
    ELSE IF ~includes(<<"scheduled", "live">>, circle.status)
    THEN Rejected("endCircle", userId, "none", "InvalidState", circle.status)
    ELSE
    /\ circle' =
         [circle EXCEPT !.status = "ended", !.endedAt = now, !.endReason = "host_ended"]
    /\ last' = Result("endCircle", userId, "none", "ok", circle.status, "none")
    /\ UNCHANGED <<members, handRaises, timers, tokens, created, now, quota, queue, calls>>

\* faulty variant: only the circle document is deleted
deleteCircleKeepSubcollections(userId) ==
    IF ~circle.exists THEN Rejected("deleteCircle", userId, "none", "NotFound", "none")
    ELSE IF circle.hostUid # userId
    THEN Rejected("deleteCircle", userId, "none", "Forbidden", "none")
    ELSE IF circle.status # "scheduled"
    THEN Rejected("deleteCircle", userId, "none", "InvalidState", circle.status)
    ELSE
    /\ circle' = NoCircle
    /\ last' = Result("deleteCircle", userId, "none", "ok", circle.status, "none")
    /\ UNCHANGED <<members, handRaises, timers, tokens, created, now, quota, queue, calls>>

\* 5. Delete Circle (hard delete of the document and of both sub-collections)
deleteCircle(userId) ==
    IF ~circle.exists THEN Rejected("deleteCircle", userId, "none", "NotFound", "none")
    ELSE IF circle.hostUid # userId
    THEN Rejected("deleteCircle", userId, "none", "Forbidden", "none")
    ELSE IF circle.status # "scheduled"
    THEN Rejected("deleteCircle", userId, "none", "InvalidState", circle.status)
    ELSE
    /\ circle' = NoCircle
    /\ members' = [u \in Users |-> NoMember]
    /\ handRaises' = {}
    /\ last' = Result("deleteCircle", userId, "none", "ok", circle.status, "none")
    /\ UNCHANGED <<timers, tokens, created, now, quota, queue, calls>>

\* deleteCircle by the host of one of the further circles, which are scheduled
deleteCircleOther(userId, createdAt) ==
    /\ others[createdAt] > 0
    /\ others' = [others EXCEPT ![createdAt] = @ - 1]
    /\ last' = Result("deleteCircleOther", userId, "none", "ok", "scheduled", "none")
    /\ UNCHANGED <<circle, members, handRaises, timers, tokens, created, now, pending,
                   succeeded, queue, calls>>

\* faulty variant: arming a check replaces the one still pending
handleHostDisconnectionRearm(op, hostId) ==
    IF ~members[hostId].exists
    THEN Thrown(op, hostId, "none", "StoreError", "none")
    ELSE
    /\ members' = [members EXCEPT ![hostId].status = "disconnected",
                                  ![hostId].disconnectedAt = now]
    /\ circle' = [circle EXCEPT !.hostDisconnectedAt = now]
    /\ timers' = 1
    /\ last' = Result(op, hostId, "host", "ok", circle.status, "none")
    /\ UNCHANGED <<handRaises, tokens, created, now, quota>>

\* 6. Handle Host Disconnection: both updates, then the 5-minute setTimeout.
\* update() of a document that does not exist throws, and nothing after it runs.
handleHostDisconnection(op, hostId) ==
    IF ~members[hostId].exists
    THEN Thrown(op, hostId, "none", "StoreError", "none")
    ELSE
    /\ timers < MaxTimers
    /\ members' = [members EXCEPT ![hostId].status = "disconnected",
                                  ![hostId].disconnectedAt = now]
    /\ circle' = [circle EXCEPT !.hostDisconnectedAt = now]
    /\ timers' = timers + 1
    /\ last' = Result(op, hostId, "host", "ok", circle.status, "none")
    /\ UNCHANGED <<handRaises, tokens, created, now, quota>>

\* faulty variant: the update copied from endCircle, with its endReason
endCircleDueToHostDisconnectionAsHostEnded ==
    IF ~circle.exists
    THEN circle' = circle
    ELSE circle' = [circle EXCEPT !.status = "ended", !.endedAt = now,
                                  !.endReason = "host_ended"]

\* 7. End Circle Due to Host Disconnection (the update throws on a deleted
\* circle; the callback catches and logs it)
endCircleDueToHostDisconnection ==
    IF ~circle.exists
    THEN circle' = circle
    ELSE circle' = [circle EXCEPT !.status = "ended", !.endedAt = now,
                                  !.endReason = "host_disconnected"]

\* the callback of the setTimeout of handleHostDisconnection, for host hostId
hostDisconnectionTimeout(hostId) ==
    /\ timers > 0
    /\ timers' = timers - 1
    /\ IF members[hostId].exists /\ members[hostId].status = "disconnected"
       THEN /\ endCircleDueToHostDisconnection
            /\ last' = Result("timeout", hostId, "none", "ended", circle.status, "none")
       ELSE /\ circle' = circle
            /\ last' = Result("timeout", hostId, "none", "noop", circle.status, "none")
    /\ UNCHANGED <<members, handRaises, tokens, created, now, quota, queue, calls>>

\* faulty variant: the DTO also admits speaker
JoinCircleDtoValidWithSpeaker(roleIn) == roleIn = UNDEF \/ roleIn \in {"listener", "speaker"}

\* class-validator on JoinCircleDto: role is optional and, if given, 'listener'
JoinCircleDtoValid(roleIn) == roleIn = UNDEF \/ roleIn \in {"listener"}

\* faulty variant: only a scheduled circle is refused
isJoinableUnlessScheduled(status) == status # "scheduled"

\* Check if circle is joinable
isJoinable(status) == includes(<<"scheduled", "live">>, status)

\* faulty variant: a rejoin writes a fresh member record
reactivateFresh(existingMember) ==
    [NewMember("listener", now) EXCEPT !.rejoinCount = existingMember.rejoinCount + 1]

\* the member update of a rejoin: the analytics and the role are not written
reactivate(existingMember) ==
    [existingMember EXCEPT
       !.status = "active",
       !.leftAt = NULL,
       !.rejoinCount = existingMember.rejoinCount + 1,
       !.joinedAt = now]

\* faulty variant: the host's repeated join counts a participant again
hostJoinExistingCounted(userId, roleIn) ==
    /\ circle.participantCount < MaxCount
    /\ circle' = [circle EXCEPT !.participantCount = @ + 1]
    /\ tokens' = tokens \cup {userId}
    /\ last' = Result("joinCircle", userId, roleIn, "ok", "existing", "host")
    /\ UNCHANGED <<members, handRaises, timers, created, now, quota, queue, calls>>

\* Host of a scheduled circle who is already a member: a token, no write
hostJoinExisting(userId, roleIn) ==
    /\ tokens' = tokens \cup {userId}
    /\ last' = Result("joinCircle", userId, roleIn, "ok", "existing", "host")
    /\ UNCHANGED <<circle, members, handRaises, timers, created, now, quota, queue, calls>>

\* Host can join their own scheduled circle as host
hostJoinNew(userId, roleIn) ==
    /\ circle.participantCount < MaxCount
    /\ members' = [members EXCEPT
                     ![userId] = [NewMember("host", now) EXCEPT !.isMuted = FALSE]]
    /\ circle' = [circle EXCEPT !.participantCount = @ + 1]
    /\ tokens' = tokens \cup {userId}
    /\ last' = Result("joinCircle", userId, roleIn, "ok", "new", "host")
    /\ UNCHANGED <<handRaises, timers, created, now, quota, queue, calls>>

\* faulty variant: the participant count is incremented on every repeat,
\* whether or not the member had left
memberJoinExistingRecount(userId, roleIn) ==
    LET existingMember == members[userId] IN
    /\ circle.participantCount < MaxCount
    /\ members' = [members EXCEPT ![userId] =
                     IF existingMember.status = "left"
                     THEN reactivate(existingMember) ELSE existingMember]
    /\ circle' = [circle EXCEPT !.participantCount = @ + 1]
    /\ tokens' = tokens \cup {userId}
    /\ last' = Result("joinCircle", userId, roleIn, "ok",
                      IF existingMember.status = "left" THEN "left" ELSE "existing",
                      existingMember.role)
    /\ UNCHANGED <<handRaises, timers, created, now, quota, queue, calls>>

\* If user is already a member, handle rejoining
memberJoinExisting(userId, roleIn) ==
    LET existingMember == members[userId] IN
    IF existingMember.status = "left"
    THEN /\ existingMember.rejoinCount < MaxRejoin
         /\ circle.participantCount < MaxCount
         /\ members' = [members EXCEPT ![userId] = reactivate(existingMember)]
         /\ circle' = [circle EXCEPT !.participantCount = @ + 1]
         /\ tokens' = tokens \cup {userId}
         /\ last' = Result("joinCircle", userId, roleIn, "ok", "left", existingMember.role)
         /\ UNCHANGED <<handRaises, timers, created, now, quota, queue, calls>>
    ELSE /\ tokens' = tokens \cup {userId}
         /\ last' = Result("joinCircle", userId, roleIn, "ok", "existing", existingMember.role)
         /\ UNCHANGED <<circle, members, handRaises, timers, created, now, quota, queue, calls>>

\* faulty variant: the new member is written and the count is left as it was
memberJoinNewUncounted(userId, roleIn) ==
    LET requestedRole == IF roleIn # UNDEF THEN roleIn ELSE "listener" IN
    /\ members' = [members EXCEPT ![userId] = NewMember(requestedRole, now)]
    /\ tokens' = tokens \cup {userId}
    /\ last' = Result("joinCircle", userId, roleIn, "ok", "new", requestedRole)
    /\ UNCHANGED <<circle, handRaises, timers, created, now, quota, queue, calls>>

\* Add as new member in nested collection
memberJoinNew(userId, roleIn) ==
    LET requestedRole == IF roleIn # UNDEF THEN roleIn ELSE "listener" IN
    /\ circle.participantCount < MaxCount
    /\ members' = [members EXCEPT ![userId] = NewMember(requestedRole, now)]
    /\ circle' = [circle EXCEPT !.participantCount = @ + 1]
    /\ tokens' = tokens \cup {userId}
    /\ last' = Result("joinCircle", userId, roleIn, "ok", "new", requestedRole)
    /\ UNCHANGED <<handRaises, timers, created, now, quota, queue, calls>>

\* 5. Join Circle (the request body passes the validation pipe first)
joinCircle(userId, roleIn) ==
    IF ~JoinCircleDtoValid(roleIn)
    THEN Rejected("joinCircle", userId, roleIn, "BadRequest", "none")
    ELSE IF ~circle.exists
    THEN Rejected("joinCircle", userId, roleIn, "NotFound", "none")
    ELSE IF ~isJoinable(circle.status)
    THEN Rejected("joinCircle", userId, roleIn, "InvalidState", circle.status)
    ELSE IF circle.hostUid = userId /\ circle.status = "scheduled"
    THEN IF members[userId].exists
         THEN hostJoinExisting(userId, roleIn)
         ELSE hostJoinNew(userId, roleIn)
    ELSE IF members[userId].exists
    THEN memberJoinExisting(userId, roleIn)
    ELSE memberJoinNew(userId, roleIn)

\* ---- joinCircle, one await at a time: each action runs the handler of the
\* request c from one await to the next

\* the call has gone past an await: nothing is returned yet
Awaiting(userId, roleIn) ==
    Result("joinCircle:await", userId, roleIn, "pending", "none", "none")

\* Special case: Host joining their own scheduled circle
isHostOfScheduled(call) ==
    call.circle.hostUid = call.userId /\ call.circle.status = "scheduled"

\* const requestedRole = joinDto?.role || 'listener'
requestedRole(call) == IF call.role # UNDEF THEN call.role ELSE "listener"

\* const circleSnap = await circleRef.get(), and the checks on the snapshot
joinCircleGet(c, userId, roleIn) ==
    /\ calls[c].pc = "idle"
    /\ IF ~JoinCircleDtoValid(roleIn)
       THEN Rejected("joinCircle", userId, roleIn, "BadRequest", "none")
       ELSE IF ~circle.exists
       THEN Rejected("joinCircle", userId, roleIn, "NotFound", "none")
       ELSE IF ~isJoinable(circle.status)
       THEN Rejected("joinCircle", userId, roleIn, "InvalidState", circle.status)
       ELSE /\ calls' = [calls EXCEPT ![c] =
                           [NoCall EXCEPT !.pc = "memberGet", !.userId = userId,
                                          !.role = roleIn, !.circle = circle]]
            /\ last' = Awaiting(userId, roleIn)
            /\ UNCHANGED <<circle, members, handRaises, timers, tokens, created, now,
                           quota, queue>>

\* const memberSnap = await memberRef.get(), and the branch it selects
joinCircleMemberGet(c) ==
    LET call == calls[c]
        existingMember == members[call.userId] IN
    /\ call.pc = "memberGet"
    /\ calls' = [calls EXCEPT
                   ![c].existingMember = existingMember,
                   ![c].pc = IF existingMember.exists
                             THEN IF ~isHostOfScheduled(call) /\ existingMember.status = "left"
                                  THEN "memberUpdate"
                                  ELSE "mint"
                             ELSE "memberSet"]
    /\ last' = Awaiting(call.userId, call.role)
    /\ UNCHANGED <<circle, members, handRaises, timers, tokens, created, now, quota, queue>>

\* await memberRef.set(memberData) of a new member, or await memberRef.update
\* of a member who had left; update throws if the document is gone
joinCircleMemberWrite(c) ==
    LET call == calls[c]
        userId == call.userId IN
    /\ call.pc \in {"memberSet", "memberUpdate"}
    /\ IF call.pc = "memberSet"
       THEN /\ members' = [members EXCEPT ![userId] =
                             IF isHostOfScheduled(call)
                             THEN [NewMember("host", now) EXCEPT !.isMuted = FALSE]
                             ELSE NewMember(requestedRole(call), now)]
            /\ calls' = [calls EXCEPT ![c].pc = "increment"]
            /\ last' = Awaiting(userId, call.role)
       ELSE IF ~members[userId].exists
       THEN /\ calls' = [calls EXCEPT ![c] = NoCall]
            /\ last' = Result("joinCircle", userId, call.role, "StoreError", "left", "none")
            /\ UNCHANGED members
       ELSE /\ call.existingMember.rejoinCount < MaxRejoin
            /\ members' = [members EXCEPT ![userId] =
                             [@ EXCEPT !.status = "active",
                                       !.leftAt = NULL,
                                       !.rejoinCount = call.existingMember.rejoinCount + 1,
                                       !.joinedAt = now]]
            /\ calls' = [calls EXCEPT ![c].pc = "increment"]
            /\ last' = Awaiting(userId, call.role)
    /\ UNCHANGED <<circle, handRaises, timers, tokens, created, now, quota, queue>>

\* faulty variant: the count is written back from the snapshot the request read
joinCircleIncrementAbsolute(c) ==
    LET call == calls[c] IN
    /\ call.pc = "increment"
    /\ IF ~circle.exists
       THEN /\ calls' = [calls EXCEPT ![c] = NoCall]
            /\ last' = Result("joinCircle", call.userId, call.role, "StoreError", "none", "none")
            /\ UNCHANGED circle
       ELSE /\ circle.participantCount < MaxCount
            /\ circle' = [circle EXCEPT !.participantCount = call.circle.participantCount + 1]
            /\ calls' = [calls EXCEPT ![c].pc = "mint"]
            /\ last' = Awaiting(call.userId, call.role)
    /\ UNCHANGED <<members, handRaises, timers, tokens, created, now, quota, queue>>

\* await circleRef.update({participantCount: FieldValue.increment(1)}); update
\* throws if the circle document is gone
joinCircleIncrement(c) ==
    LET call == calls[c] IN
    /\ call.pc = "increment"
    /\ IF ~circle.exists
       THEN /\ calls' = [calls EXCEPT ![c] = NoCall]
            /\ last' = Result("joinCircle", call.userId, call.role, "StoreError", "none", "none")
            /\ UNCHANGED circle
       ELSE /\ circle.participantCount < MaxCount
            /\ circle' = [circle EXCEPT !.participantCount = @ + 1]
            /\ calls' = [calls EXCEPT ![c].pc = "mint"]
            /\ last' = Awaiting(call.userId, call.role)
    /\ UNCHANGED <<members, handRaises, timers, tokens, created, now, quota, queue>>

\* getUserData, mintToken and return { webrtcToken, role }
joinCircleReturn(c) ==
    LET call == calls[c]
        existingMember == call.existingMember IN
    /\ call.pc = "mint"
    /\ tokens' = tokens \cup {call.userId}
    /\ last' = Result("joinCircle", call.userId, call.role, "ok",
                      IF ~existingMember.exists THEN "new"
                      ELSE IF ~isHostOfScheduled(call) /\ existingMember.status = "left"
                      THEN "left" ELSE "existing",
                      IF isHostOfScheduled(call) THEN "host"
                      ELSE IF existingMember.exists THEN existingMember.role
                      ELSE requestedRole(call))
    /\ calls' = [calls EXCEPT ![c] = NoCall]
    /\ UNCHANGED <<circle, members, handRaises, timers, created, now, quota, queue>>

\* faulty variant: the permission check is missing
promoteMemberUnchecked(requesterId, targetUserId, newRole) ==
    IF ~circle.exists
    THEN Rejected("promoteMember", requesterId, targetUserId, "NotFound", "none")
    ELSE IF ~members[targetUserId].exists
    THEN Rejected("promoteMember", requesterId, targetUserId, "MemberNotFound", "none")
    ELSE
    /\ members[targetUserId].roleChangeCount < MaxRoleChange
    /\ members' = [members EXCEPT ![targetUserId].role = newRole,
                                  ![targetUserId].roleChangeCount = @ + 1]
    /\ tokens' = tokens \cup {targetUserId}
    /\ last' = Result("promoteMember", requesterId, targetUserId, "ok",
                      members[targetUserId].role, newRole)
    /\ UNCHANGED <<circle, handRaises, timers, created, now, quota, queue, calls>>

\* Promote / demote (PromoteCircleDto: newRole is listener, speaker or host)
promoteMember(requesterId, targetUserId, newRole) ==
    IF ~circle.exists
    THEN Rejected("promoteMember", requesterId, targetUserId, "NotFound", "none")
    ELSE IF ~members[targetUserId].exists
    THEN Rejected("promoteMember", requesterId, targetUserId, "MemberNotFound", "none")
    ELSE IF circle.hostUid # requesterId
    THEN Rejected("promoteMember", requesterId, targetUserId, "Forbidden", "none")
    ELSE
    /\ members[targetUserId].roleChangeCount < MaxRoleChange
    /\ members' = [members EXCEPT ![targetUserId].role = newRole,
                                  ![targetUserId].roleChangeCount = @ + 1]
    /\ tokens' = tokens \cup {targetUserId}
    /\ last' = Result("promoteMember", requesterId, targetUserId, "ok",
                      members[targetUserId].role, newRole)
    /\ UNCHANGED <<circle, handRaises, timers, created, now, quota, queue, calls>>

\* faulty variant: the host may leave like any member
leaveCircleHostAllowed(userId) ==
    IF ~circle.exists THEN Rejected("leaveCircle", userId, "none", "NotFound", "none")
    ELSE IF ~members[userId].exists
    THEN Rejected("leaveCircle", userId, "none", "StoreError", "none")
    ELSE
    /\ circle.participantCount > -MaxDeficit
    /\ members' = [members EXCEPT ![userId].leftAt = now, ![userId].status = "left"]
    /\ handRaises' = handRaises \ {userId}
    /\ circle' = [circle EXCEPT !.participantCount = @ - 1]
    /\ last' = Result("leaveCircle", userId, "none", "ok", members[userId].status, "none")
    /\ UNCHANGED <<timers, tokens, created, now, quota, queue, calls>>

\* faulty variant: the hand raise of the leaving member stays
leaveCircleKeepHandRaise(userId) ==
    IF ~circle.exists THEN Rejected("leaveCircle", userId, "none", "NotFound", "none")
    ELSE IF circle.hostUid = userId
    THEN Rejected("leaveCircle", userId, "none", "InvalidState", "host")
    ELSE IF ~members[userId].exists
    THEN Rejected("leaveCircle", userId, "none", "StoreError", "none")
    ELSE
    /\ circle.participantCount > -MaxDeficit
    /\ members' = [members EXCEPT ![userId].leftAt = now, ![userId].status = "left"]
    /\ circle' = [circle EXCEPT !.participantCount = @ - 1]
    /\ last' = Result("leaveCircle", userId, "none", "ok", members[userId].status, "none")
    /\ UNCHANGED <<handRaises, timers, tokens, created, now, quota, queue, calls>>

\* faulty variant: only an active member is taken off participantCount
leaveCircleOnlyActive(userId) ==
    IF ~circle.exists THEN Rejected("leaveCircle", userId, "none", "NotFound", "none")
    ELSE IF circle.hostUid = userId
    THEN Rejected("leaveCircle", userId, "none", "InvalidState", "host")
    ELSE IF ~members[userId].exists
    THEN Rejected("leaveCircle", userId, "none", "StoreError", "none")
    ELSE
    /\ circle.participantCount > -MaxDeficit
    /\ members' = [members EXCEPT ![userId].leftAt = now, ![userId].status = "left"]
    /\ handRaises' = handRaises \ {userId}
    /\ circle' = [circle EXCEPT
                    !.participantCount = IF members[userId].status = "active" THEN @ - 1 ELSE @]
    /\ last' = Result("leaveCircle", userId, "none", "ok", members[userId].status, "none")
    /\ UNCHANGED <<timers, tokens, created, now, quota, queue, calls>>

\* 6. Leave Circle
leaveCircle(userId) ==
    IF ~circle.exists THEN Rejected("leaveCircle", userId, "none", "NotFound", "none")
    ELSE IF circle.hostUid = userId
    THEN Rejected("leaveCircle", userId, "none", "InvalidState", "host")
    ELSE IF ~members[userId].exists
    THEN Rejected("leaveCircle", userId, "none", "StoreError", "none")
    ELSE
    /\ circle.participantCount > -MaxDeficit
    /\ members' = [members EXCEPT ![userId].leftAt = now, ![userId].status = "left"]
    /\ handRaises' = handRaises \ {userId}
    /\ circle' = [circle EXCEPT !.participantCount = @ - 1]
    /\ last' = Result("leaveCircle", userId, "none", "ok", members[userId].status, "none")
    /\ UNCHANGED <<timers, tokens, created, now, quota, queue, calls>>

\* A member document written straight to the store by its user, which the
\* security rules allow in a live circle: it carries a role, and its status
\* field is missing or null (as in documents older than the field).
clientJoin(userId, role, status) ==
    /\ circle.exists /\ circle.status = "live"
    /\ ~members[userId].exists
    /\ members' = [members EXCEPT ![userId] = [NewMember(role, now) EXCEPT !.status = status]]
    /\ last' = Result("clientJoin", userId, role, "ok", "none", "none")
    /\ UNCHANGED <<circle, handRaises, timers, tokens, created, now, quota, queue, calls>>

\* faulty variant: only the members who left are filtered out
isActiveMemberUnlessLeft(member) == member.status # "left"

\* Filter for active members (status is 'active' or null/undefined)
isActiveMember(member) ==
    member.status = "active" \/ member.status = "null" \/ member.status = UNDEF

\* 9. Get Circle Details: the ids of the members and of the hand raises returned
getCircleDetails ==
    IF ~circle.exists THEN Rejected("getCircleDetails", "none", "none", "NotFound", "none")
    ELSE
    /\ last' = [Result("getCircleDetails", "none", "none", "ok", circle.status, "none")
                  EXCEPT !.ret =
                    [members |-> {u \in Users : members[u].exists /\ isActiveMember(members[u])},
                     handRaises |-> handRaises]]
    /\ UNCHANGED <<circle, members, handRaises, timers, tokens, created, now, quota, queue, calls>>

\* faulty variant: allStatuses is returned as the available ones
getAvailableStatusesAll(userId) ==
    IF ~circle.exists
    THEN Rejected("getAvailableStatuses", userId, "none", "NotFound", "none")
    ELSE IF circle.hostUid # userId
    THEN Rejected("getAvailableStatuses", userId, "none", "Forbidden", "none")
    ELSE
    /\ last' = [Result("getAvailableStatuses", userId, "none", "ok", circle.status, "none")
                  EXCEPT !.ret = <<"scheduled", "live", "ended">>]
    /\ UNCHANGED <<circle, members, handRaises, timers, tokens, created, now, quota, queue, calls>>

\* this.validStatusTransitions[currentStatus] || []
availableStatuses(currentStatus) ==
    IF currentStatus \in DOMAIN validStatusTransitions
    THEN validStatusTransitions[currentStatus]
    ELSE <<>>

\* 10. Get Available Statuses (a read: the current status is what it answers from)
getAvailableStatuses(userId) ==
    IF ~circle.exists
    THEN Rejected("getAvailableStatuses", userId, "none", "NotFound", "none")
    ELSE IF circle.hostUid # userId
    THEN Rejected("getAvailableStatuses", userId, "none", "Forbidden", "none")
    ELSE
    /\ last' = [Result("getAvailableStatuses", userId, "none", "ok", circle.status, "none")
                  EXCEPT !.ret = availableStatuses(circle.status)]
    /\ UNCHANGED <<circle, members, handRaises, timers, tokens, created, now, quota, queue, calls>>

\* A hand raise written straight to the store by a member of a live circle,
\* as the security rules allow.
raiseHand(userId) ==
    /\ circle.exists /\ circle.status = "live"
    /\ members[userId].exists
    /\ userId \notin handRaises
    /\ handRaises' = handRaises \cup {userId}
    /\ last' = Result("raiseHand", userId, "none", "ok", "none", "none")
    /\ UNCHANGED <<circle, members, timers, tokens, created, now, quota, queue, calls>>

\* ----------------------------------------------------------- webhook events
\* faulty variant: the count goes up whatever the member's status
incrementParticipantCountAlways(op, userId) ==
    IF ~circle.exists
    THEN Thrown(op, userId, "none", "StoreError", "none")
    ELSE /\ circle.participantCount < MaxCount
         /\ circle' = [circle EXCEPT !.participantCount = @ + 1]
         /\ last' = Result(op, userId, "none", "ok", members[userId].status, "none")
         /\ UNCHANGED <<members, handRaises, timers, tokens, created, now, quota>>

\* LiveKit reports a participant only for an identity a token was minted for.
incrementParticipantCount(op, userId) ==
    IF members[userId].exists /\ members[userId].status = "active"
    THEN /\ last' = Result(op, userId, "none", "ok", "active", "none")
         /\ UNCHANGED <<circle, members, handRaises, timers, tokens, created, now, quota>>
    ELSE IF ~circle.exists
    THEN Thrown(op, userId, "none", "StoreError", "none")
    ELSE /\ circle.participantCount < MaxCount
         /\ circle' = [circle EXCEPT !.participantCount = @ + 1]
         /\ last' = Result(op, userId, "none", "ok", members[userId].status, "none")
         /\ UNCHANGED <<members, handRaises, timers, tokens, created, now, quota>>

handleParticipantJoined(identity) ==
    /\ identity \in tokens
    /\ IF identity \notin KnownUsers
       THEN Thrown("participant_joined", identity, "none", "UserNotFound", "none")
       ELSE incrementParticipantCount("participant_joined", identity)

\* faulty variant: the count goes down whatever the member's status
decrementParticipantCountAlways(op, userId) ==
    IF ~circle.exists
    THEN Thrown(op, userId, "none", "StoreError", "none")
    ELSE /\ circle.participantCount > -MaxDeficit
         /\ circle' = [circle EXCEPT !.participantCount = @ - 1]
         /\ handRaises' = handRaises \ {userId}
         /\ last' = Result(op, userId, "none", "ok", members[userId].status, "none")
         /\ UNCHANGED <<members, timers, tokens, created, now, quota>>

\* decrementParticipantCount, then removeHandRaise
decrementParticipantCount(op, userId) ==
    IF members[userId].exists /\ members[userId].status = "active"
    THEN IF ~circle.exists
         THEN Thrown(op, userId, "none", "StoreError", "none")
         ELSE /\ circle.participantCount > -MaxDeficit
              /\ circle' = [circle EXCEPT !.participantCount = @ - 1]
              /\ handRaises' = handRaises \ {userId}
              /\ last' = Result(op, userId, "none", "ok", "active", "none")
              /\ UNCHANGED <<members, timers, tokens, created, now, quota>>
    ELSE /\ handRaises' = handRaises \ {userId}
         /\ last' = Result(op, userId, "none", "ok", members[userId].status, "none")
         /\ UNCHANGED <<circle, members, timers, tokens, created, now, quota>>

\* faulty variant: the host is handled like any other participant
handleParticipantLeftNoHostBranch(identity) ==
    /\ identity \in tokens
    /\ IF identity \notin KnownUsers
       THEN Thrown("participant_left", identity, "none", "UserNotFound", "none")
       ELSE decrementParticipantCount("participant_left", identity)

\* faulty variant: every participant who leaves is treated as the host is
handleParticipantLeftAsHost(identity) ==
    /\ identity \in tokens
    /\ IF identity \notin KnownUsers
       THEN Thrown("participant_left", identity, "none", "UserNotFound", "none")
       ELSE IF circle.exists
       THEN handleHostDisconnection("participant_left", identity)
       ELSE decrementParticipantCount("participant_left", identity)

handleParticipantLeft(identity) ==
    /\ identity \in tokens
    /\ IF identity \notin KnownUsers
       THEN Thrown("participant_left", identity, "none", "UserNotFound", "none")
       ELSE IF circle.exists /\ circle.hostUid = identity
       THEN handleHostDisconnection("participant_left", identity)
       ELSE decrementParticipantCount("participant_left", identity)

\* startSpeakingTime: update() of a member document that does not exist throws
startSpeakingTime(op, userId) ==
    IF ~members[userId].exists
    THEN Thrown(op, userId, "audio", "StoreError", "none")
    ELSE /\ members' = [members EXCEPT ![userId].lastSpokeAt = now]
         /\ last' = Result(op, userId, "audio", "ok", "none", "none")
         /\ UNCHANGED <<circle, handRaises, timers, tokens, created, now, quota>>

\* faulty variant: the stamp is not cleared
endSpeakingTimeKeepStamp(op, userId) ==
    IF ~members[userId].exists
    THEN Thrown(op, userId, "audio", "StoreError", "none")
    ELSE /\ members' =
              IF members[userId].lastSpokeAt # NULL
              THEN [members EXCEPT
                      ![userId].totalSpeakTime = @ + (now - members[userId].lastSpokeAt)]
              ELSE members
         /\ last' = Result(op, userId, "audio", "ok", "none", "none")
         /\ UNCHANGED <<circle, handRaises, timers, tokens, created, now, quota>>

\* endSpeakingTime: Date.now() - lastSpokeAt is added if lastSpokeAt is set
endSpeakingTime(op, userId) ==
    IF ~members[userId].exists
    THEN Thrown(op, userId, "audio", "StoreError", "none")
    ELSE /\ members' =
              IF members[userId].lastSpokeAt # NULL
              THEN [members EXCEPT
                      ![userId].totalSpeakTime = @ + (now - members[userId].lastSpokeAt),
                      ![userId].lastSpokeAt = NULL]
              ELSE [members EXCEPT ![userId].lastSpokeAt = NULL]
         /\ last' = Result(op, userId, "audio", "ok", "none", "none")
         /\ UNCHANGED <<circle, handRaises, timers, tokens, created, now, quota>>

\* Track speaking time for analytics (audio tracks only)
handleTrackPublished(identity, trackType) ==
    /\ identity \in tokens
    /\ IF identity \notin KnownUsers
       THEN Thrown("track_published", identity, trackType, "UserNotFound", "none")
       ELSE IF trackType = "audio"
       THEN startSpeakingTime("track_published", identity)
       ELSE Thrown("track_published", identity, trackType, "ok", "none")

\* End speaking time tracking (audio tracks only)
handleTrackUnpublished(identity, trackType) ==
    /\ identity \in tokens
    /\ IF identity \notin KnownUsers
       THEN Thrown("track_unpublished", identity, trackType, "UserNotFound", "none")
       ELSE IF trackType = "audio"
       THEN endSpeakingTime("track_unpublished", identity)
       ELSE Thrown("track_unpublished", identity, trackType, "ok", "none")

\* ---- handleTrackUnpublished, one await at a time, for the handler c

\* handleTrackUnpublished up to endSpeakingTime's memberRef.get(): the user
\* check, the member snapshot and speakDuration = Date.now() - lastSpokeAt
handleTrackUnpublishedGet(c, identity, trackType) ==
    /\ calls[c].pc = "idle"
    /\ identity \in tokens
    /\ IF identity \notin KnownUsers
       THEN /\ Thrown("track_unpublished", identity, trackType, "UserNotFound", "none")
            /\ UNCHANGED calls
       ELSE IF trackType # "audio"
       THEN /\ Thrown("track_unpublished", identity, trackType, "ok", "none")
            /\ UNCHANGED calls
       ELSE /\ calls' = [calls EXCEPT ![c] =
                           [NoCall EXCEPT
                              !.pc = "speakUpdate",
                              !.userId = identity,
                              !.existingMember = members[identity],
                              !.speakDuration =
                                 IF members[identity].lastSpokeAt # NULL
                                 THEN now - members[identity].lastSpokeAt
                                 ELSE 0]]
            /\ last' = Result("track_unpublished:await", identity, trackType, "pending",
                              "none", "none")
            /\ UNCHANGED <<circle, members, handRaises, timers, tokens, created, now, quota>>
    /\ UNCHANGED queue

\* endSpeakingTime's memberRef.update: totalSpeakTime is written as the total
\* of the snapshot plus the duration; update throws if the document is gone
endSpeakingTimeUpdate(c) ==
    LET call == calls[c]
        userId == call.userId
        currentTotal == call.existingMember.totalSpeakTime IN
    /\ call.pc = "speakUpdate"
    /\ IF ~members[userId].exists
       THEN /\ last' = Result("track_unpublished", userId, "audio", "StoreError", "none", "none")
            /\ UNCHANGED members
       ELSE /\ members' =
                 IF call.existingMember.lastSpokeAt # NULL
                 THEN [members EXCEPT
                         ![userId].totalSpeakTime = currentTotal + call.speakDuration,
                         ![userId].lastSpokeAt = NULL]
                 ELSE [members EXCEPT ![userId].lastSpokeAt = NULL]
            /\ last' = Result("track_unpublished", userId, "audio", "ok", "none", "none")
    /\ calls' = [calls EXCEPT ![c] = NoCall]
    /\ UNCHANGED <<circle, handRaises, timers, tokens, created, now, quota, queue>>

\* the event kinds processWebhook hands on
handledEvents ==
    <<"participant_joined", "participant_left", "track_published", "track_unpublished">>

TrackTypes == {"audio", "video"}

\* a webhook event: its kind, the participant's identity, the type of its track
Event(kind, identity, track) == [kind |-> kind, identity |-> identity, track |-> track]

\* the events LiveKit sends for the room: a participant event carries no track
Events ==
    {Event(k, u, "none") : k \in {"participant_joined", "participant_left"}, u \in Users}
    \cup {Event(k, u, t) : k \in {"track_published", "track_unpublished"},
                           u \in Users, t \in TrackTypes}

\* handleEvent: the switch on the kind of the event; another kind is logged
handleEvent(event) ==
    IF event.kind = "participant_joined" THEN handleParticipantJoined(event.identity)
    ELSE IF event.kind = "participant_left" THEN handleParticipantLeft(event.identity)
    ELSE IF event.kind = "track_published"
    THEN handleTrackPublished(event.identity, event.track)
    ELSE IF event.kind = "track_unpublished"
    THEN handleTrackUnpublished(event.identity, event.track)
    ELSE Thrown(event.kind, event.identity, event.track, "unhandled", "none")

\* ----------------------------------------------------------- webhook ingestion
AuthHeaders == {"missing", "invalid", "valid"}  \* Authorization: none, a bad or a good signature
RawBodies == {"absent", "empty", "notjson", "json"}

\* an event of a kind that handleEvent has no case for
RoomStarted == Event("room_started", "none", "none")

\* faulty variant: room_started is handed on as well
processWebhookWithRoomStarted(authHeader, rawBody, event) ==
    IF authHeader # "valid"
    THEN /\ last' = Result("webhook", event.identity, event.kind, "BadRequest",
                           authHeader, rawBody)
         /\ UNCHANGED <<circle, members, handRaises, timers, tokens, created, now, quota,
                        queue, calls>>
    ELSE IF includes(handledEvents, event.kind) \/ event.kind = "room_started"
    THEN /\ Cardinality(queue \cup {event}) <= MaxQueue
         /\ queue' = queue \cup {event}
         /\ UNCHANGED calls
         /\ last' = Result("webhook", event.identity, event.kind, "received",
                           authHeader, rawBody)
         /\ UNCHANGED <<circle, members, handRaises, timers, tokens, created, now, quota>>
    ELSE /\ last' = Result("webhook", event.identity, event.kind, "ignored",
                           authHeader, rawBody)
         /\ UNCHANGED <<circle, members, handRaises, timers, tokens, created, now, quota,
                        queue, calls>>

\* processWebhook: receiver.receive throws on a signature that does not verify,
\* and every throw becomes the same BadRequestException; a handled event is
\* left to setImmediate, any other is only logged
processWebhook(authHeader, rawBody, event) ==
    IF authHeader # "valid"
    THEN /\ last' = Result("webhook", event.identity, event.kind, "BadRequest",
                           authHeader, rawBody)
         /\ UNCHANGED <<circle, members, handRaises, timers, tokens, created, now, quota,
                        queue, calls>>
    ELSE IF includes(handledEvents, event.kind)
    THEN /\ Cardinality(queue \cup {event}) <= MaxQueue
         /\ queue' = queue \cup {event}
         /\ UNCHANGED calls
         /\ last' = Result("webhook", event.identity, event.kind, "received",
                           authHeader, rawBody)
         /\ UNCHANGED <<circle, members, handRaises, timers, tokens, created, now, quota>>
    ELSE /\ last' = Result("webhook", event.identity, event.kind, "ignored",
                           authHeader, rawBody)
         /\ UNCHANGED <<circle, members, handRaises, timers, tokens, created, now, quota,
                        queue, calls>>

\* WebhookController.handleLiveKitWebhook: event is what the body holds if it
\* is JSON
handleLiveKitWebhook(authHeader, rawBody, event) ==
    IF authHeader = "missing"
    THEN /\ last' = Result("webhook", event.identity, event.kind, "Unauthorized",
                           authHeader, rawBody)
         /\ UNCHANGED <<circle, members, handRaises, timers, tokens, created, now, quota,
                        queue, calls>>
    ELSE IF rawBody \in {"absent", "empty", "notjson"}
    THEN /\ last' = Result("webhook", event.identity, event.kind, "BadRequest",
                           authHeader, rawBody)
         /\ UNCHANGED <<circle, members, handRaises, timers, tokens, created, now, quota,
                        queue, calls>>
    ELSE processWebhook(authHeader, rawBody, event)

\* faulty variant: a handler's error is not caught and takes the waiting
\* events down with it
setImmediateCallbackUncaught(event) ==
    /\ event \in queue
    /\ handleEvent(event)
    /\ queue' = IF last'.result = "ok" THEN queue \ {event} ELSE {}
    /\ UNCHANGED calls

\* the setImmediate callback of processWebhook: the handler's error is logged
setImmediateCallback(event) ==
    /\ event \in queue
    /\ handleEvent(event)
    /\ queue' = queue \ {event}
    /\ UNCHANGED calls

\* the clock advances
Tick ==
    /\ now < MaxTime
    /\ now' = now + 1
    /\ last' = Result("tick", "none", "none", "none", "none", "none")
    /\ UNCHANGED <<circle, members, handRaises, timers, tokens, created, quota, queue, calls>>

\* ------------------------------------------------------------ specifications
StartAts == {NULL, now, now + 1}    \* no startAt, a start time now, one in the future

\* The lifecycle of the circle and the host-disconnection detector: every
\* lifecycle command of the host, joins, and the participant events.
Next ==
    \/ \E s \in StartAts : createCircle(Host, "t1", s, NULL)
    \/ clientCreate(Host, "t1")
    \/ \E t \in {UNDEF, "t2"}, s \in StartAts : updateCircle(Host, t, s)
    \/ \E s \in Statuses : updateCircleStatus(Host, s)
    \/ endCircle(Host)
    \/ deleteCircle(Host)
    \/ \E u \in Callers, r \in {UNDEF, "listener", "speaker"} : joinCircle(u, r)
    \/ leaveCircle(Host)
    \/ raiseHand("u1")
    \/ \E u \in Callers : handleParticipantJoined(u) /\ UNCHANGED <<queue, calls>>
    \/ \E u \in Callers : handleParticipantLeft(u) /\ UNCHANGED <<queue, calls>>
    \/ hostDisconnectionTimeout(Host)

Spec == Init /\ [][Next]_vars

\* Membership: joins, leaves, rejoins and promotions in a circle that is
\* created, started and ended.
NextMembers ==
    \/ \E s \in StartAts : createCircle(Host, "t1", s, NULL)
    \/ updateCircleStatus(Host, "live")
    \/ endCircle(Host)
    \/ \E u \in Callers, r \in {UNDEF, "listener", "speaker"} : joinCircle(u, r)
    \/ \E v \in Callers, r \in Roles : promoteMember(Host, v, r)
    \/ \E u \in Callers : leaveCircle(u)
    \/ raiseHand("u1")
    \/ handleParticipantJoined("u1") /\ UNCHANGED <<queue, calls>>
    \/ handleParticipantLeft("u1") /\ UNCHANGED <<queue, calls>>

SpecMembers == Init /\ [][NextMembers]_vars

\* Permissions: every host-only command called by the host and by a member
\* who is not the host, on a circle with members and hand raises.
NextAccess ==
    \/ \E s \in StartAts : createCircle(Host, "t1", s, NULL)
    \/ joinCircle("u1", UNDEF)
    \/ raiseHand("u1")
    \/ \E u \in Callers, s \in {NULL, now + 1} : updateCircle(u, "t2", s)
    \/ \E u \in Callers, s \in Statuses : updateCircleStatus(u, s)
    \/ \E u \in Callers : endCircle(u)
    \/ \E u \in Callers : deleteCircle(u)
    \/ \E u \in Callers, v \in Callers, r \in Roles : promoteMember(u, v, r)
    \/ \E u \in Callers : getAvailableStatuses(u)

SpecAccess == Init /\ [][NextAccess]_vars

\* The daily limit: the host creates and deletes scheduled circles over two
\* calendar days.
NextQuota ==
    \/ createCircle(Host, "t1", now + 1, NULL)
    \/ deleteCircle(Host)
    \/ createCircleCheck(Host)
    \/ \E t \in Times : createCircleWrite(Host, t)
    \/ \E t \in Times : deleteCircleOther(Host, t)
    \/ Tick

SpecQuota == Init /\ [][NextQuota]_vars

\* Speaking time: the four kinds of event of member u1, who joins, leaves and
\* rejoins, each event handled as it arrives, while the clock advances.
NextTracks ==
    \/ createCircle(Host, "t1", NULL, NULL)
    \/ joinCircle("u1", UNDEF)
    \/ leaveCircle("u1")
    \/ \E e \in Events : e.identity = "u1" /\ handleEvent(e) /\ UNCHANGED <<queue, calls>>
    \/ Tick

SpecTracks == Init /\ [][NextTracks]_vars

\* Webhook ingestion: requests with and without a signature and a body, for
\* the participant and audio-track events of the members who hold a token (u2
\* is no known user) and for a room event; the accepted events are handled
\* later.  A request that is rejected never has its event read: one event
\* stands for all of them.
NextWebhook ==
    \/ createCircle(Host, "t1", NULL, NULL)
    \/ \E u \in {"u1", "u2"} : joinCircle(u, UNDEF)
    \/ \E a \in AuthHeaders, b \in RawBodies, e \in Events \cup {RoomStarted} :
         /\ e.identity \in (tokens \ {Host}) \cup {"none"}
         /\ e.track # "video"
         /\ (a # "valid" \/ b # "json") => e = RoomStarted
         /\ handleLiveKitWebhook(a, b, e)
    \/ \E e \in Events : setImmediateCallback(e)

SpecWebhook == Init /\ [][NextWebhook]_vars

\* Reading a circle: members who are active, who left, a host who is
\* disconnected and member documents without a status, and hand raises.
NextDetails ==
    \/ createCircle(Host, "t1", NULL, NULL)
    \/ joinCircle("u1", UNDEF)
    \/ leaveCircle("u1")
    \/ \E u \in {"u1", "u2"}, st \in {UNDEF, "null"} : clientJoin(u, "listener", st)
    \/ \E u \in {"u1", "u2"} : raiseHand(u)
    \/ handleParticipantLeft(Host) /\ UNCHANGED <<queue, calls>>
    \/ getCircleDetails

SpecDetails == Init /\ [][NextDetails]_vars

\* Speakers: a circle created with maxSpeakers = 1, two members, promotions.
NextSpeakers ==
    \/ createCircle(Host, "t1", NULL, 1)
    \/ \E u \in {"u1", "u2"} : joinCircle(u, UNDEF)
    \/ leaveCircle("u1")
    \/ \E v \in {"u1", "u2"}, r \in Roles : promoteMember(Host, v, r)

SpecSpeakers == Init /\ [][NextSpeakers]_vars

\* two joinCircle requests of two different users in flight at once
NextJoin ==
    \/ createCircle(Host, "t1", NULL, NULL)
    \/ joinCircleGet("c1", "u1", UNDEF)
    \/ joinCircleGet("c2", "u2", UNDEF)
    \/ \E c \in Calls : joinCircleMemberGet(c)
    \/ \E c \in Calls : joinCircleMemberWrite(c)
    \/ \E c \in Calls : joinCircleIncrement(c)
    \/ \E c \in Calls : joinCircleReturn(c)

SpecJoin == Init /\ [][NextJoin]_vars

\* the host's connection drops and comes back while the deferred checks run
NextDisconnect ==
    \/ createCircle(Host, "t1", NULL, NULL)
    \/ joinCircle(Host, UNDEF)
    \/ endCircle(Host)
    \/ handleParticipantJoined(Host) /\ UNCHANGED <<queue, calls>>
    \/ handleParticipantLeft(Host) /\ UNCHANGED <<queue, calls>>
    \/ hostDisconnectionTimeout(Host)
    \/ Tick

SpecDisconnect == Init /\ [][NextDisconnect]_vars

\* the client commands alone, each run to completion, and no webhook event;
\* leaveCircle is called by users whose member record is active
NextCommands ==
    \/ \E s \in StartAts : createCircle(Host, "t1", s, NULL)
    \/ \E u \in Users : joinCircle(u, UNDEF)
    \/ \E u \in Users : members[u].status = "active" /\ leaveCircle(u)
    \/ \E r \in {"listener", "speaker"} : promoteMember(Host, "u1", r)
    \/ updateCircle(Host, "t2", now + 1)
    \/ \E s \in Statuses : updateCircleStatus(Host, s)
    \/ endCircle(Host)

SpecCommands == Init /\ [][NextCommands]_vars

\* members and the host come and go, by command and by webhook event, while
\* the deferred checks run
NextPresence ==
    \/ \E s \in StartAts : createCircle(Host, "t1", s, NULL)
    \/ updateCircleStatus(Host, "live")
    \/ deleteCircle(Host)
    \/ \E u \in Callers : joinCircle(u, UNDEF)
    \/ \E u \in Callers : leaveCircle(u)
    \/ \E u \in Callers : handleParticipantJoined(u) /\ UNCHANGED <<queue, calls>>
    \/ \E u \in Callers : handleParticipantLeft(u) /\ UNCHANGED <<queue, calls>>
    \/ hostDisconnectionTimeout(Host)

SpecPresence == Init /\ [][NextPresence]_vars

\* two track_unpublished handlers of u1's audio track in flight at once, as
\* after a duplicated delivery, while u1 publishes and the clock advances
NextSpeak ==
    \/ createCircle(Host, "t1", NULL, NULL)
    \/ joinCircle("u1", UNDEF)
    \/ handleTrackPublished("u1", "audio") /\ UNCHANGED <<queue, calls>>
    \/ \E c \in Calls, t \in TrackTypes : handleTrackUnpublishedGet(c, "u1", t)
    \/ \E c \in Calls : endSpeakingTimeUpdate(c)
    \/ Tick

SpecSpeak == Init /\ [][NextSpeak]_vars

\* two joinCircle requests of the same user in flight at once
NextJoinSame ==
    \/ createCircle(Host, "t1", NULL, NULL)
    \/ \E c \in Calls : joinCircleGet(c, "u1", UNDEF)
    \/ \E c \in Calls : joinCircleMemberGet(c)
    \/ \E c \in Calls : joinCircleMemberWrite(c)
    \/ \E c \in Calls : joinCircleIncrement(c)
    \/ \E c \in Calls : joinCircleReturn(c)

SpecJoinSame == Init /\ [][NextJoinSame]_vars

\* joinCircle requests in flight while the host deletes the scheduled circle
NextJoinDelete ==
    \/ \E s \in StartAts : createCircle(Host, "t1", s, NULL)
    \/ joinCircleGet("c1", "u1", UNDEF)
    \/ joinCircleGet("c2", "u2", UNDEF)
    \/ \E c \in Calls : joinCircleMemberGet(c)
    \/ \E c \in Calls : joinCircleMemberWrite(c)
    \/ \E c \in Calls : joinCircleIncrement(c)
    \/ \E c \in Calls : joinCircleReturn(c)
    \/ deleteCircle(Host)

SpecJoinDelete == Init /\ [][NextJoinDelete]_vars

\* ------------------------------------------------------------------ claims
\* the transition table of the documentation: scheduled -> live -> ended,
\* scheduled -> ended, no reverse transitions
TableEdges ==
    {<<"scheduled", "live">>, <<"scheduled", "ended">>, <<"live", "ended">>}

\* C1: every change of the status of a circle follows an edge of the table
\* scheduled -> {live, ended}, live -> {ended}, ended -> {}: an ended circle
\* never becomes live or scheduled again, a live one never scheduled.
C1_StatusFollowsTable ==
    [][(circle.exists /\ circle'.exists /\ circle'.status # circle.status)
         => <<circle.status, circle'.status>> \in TableEdges]_vars

\* C2: updateCircleStatus by the host on a circle with status a succeeds, sets
\* status b and stamps endedAt when b = ended, iff b is in table[a]; otherwise
\* it fails with an invalid-transition error naming a and b and changes nothing.
C2_UpdateStatusIffTable ==
    [][(circle.exists /\ last'.op = "updateCircleStatus" /\ last'.user = circle.hostUid)
         => IF <<circle.status, last'.arg>> \in TableEdges
            THEN /\ last'.result = "ok"
                 /\ circle'.status = last'.arg
                 /\ (last'.arg = "ended" => circle'.endedAt = now /\ now # NULL)
                 /\ circle' = [circle EXCEPT !.status = circle'.status,
                                             !.endedAt = circle'.endedAt]
                 /\ (last'.arg # "ended" => circle'.endedAt = circle.endedAt)
                 /\ UNCHANGED <<members, handRaises>>
            ELSE /\ last'.result = "InvalidTransition"
                 /\ last'.from = circle.status
                 /\ UNCHANGED <<circle, members, handRaises, timers>>]_vars

C2_Witness ==
    /\ last.op = "updateCircleStatus" /\ last.result = "ok"
    /\ last.from = "scheduled" /\ last.arg = "ended"
    /\ circle.status = "ended" /\ circle.endedAt # NULL

\* the setTimeout callback runs once its delay has passed
FairSpec == Spec /\ WF_vars(hostDisconnectionTimeout(Host))

\* C3: when the host's participant_left has armed the deferred check and the
\* host then rejoins (joinCircle by hostUid succeeds) before it fires, the
\* host's member status is active at fire time and the check is a no-op: it
\* sets neither status = ended nor endReason = host_disconnected.
C3_RejoinMakesCheckNoop ==
    [][(/\ last.op = "joinCircle" /\ last.user = Host /\ last.result = "ok"
        /\ circle.exists /\ circle.hostUid = Host
        /\ last'.op = "timeout")
         => /\ members[Host].status = "active"
            /\ last'.result = "noop"
            /\ circle' = circle]_vars

\* C4: once the host's participant_left is processed, and while the circle and
\* the host's member record exist, the circle eventually has status = ended
\* with endReason = host_disconnected and endedAt set.
C4_HostLeftEndsCircle ==
    (last.op = "participant_left" /\ last.user = Host /\ last.result = "ok")
      ~> \/ ~circle.exists
         \/ /\ circle.status = "ended"
            /\ circle.endReason = "host_disconnected"
            /\ circle.endedAt # NULL

C4_Witness ==
    /\ last.op = "timeout" /\ last.result = "ended" /\ last.from # "ended"
    /\ circle.status = "ended" /\ circle.endReason = "host_disconnected"
    /\ members[Host].status = "disconnected"

\* C5: a participant_left event of the circle's hostUid leaves participantCount
\* and the hand raises unchanged, sets the host member's status to disconnected
\* and circle.hostDisconnectedAt, and arms exactly one deferred check.
C5_HostLeftFrame ==
    [][(circle.exists /\ last'.op = "participant_left" /\ last'.user = circle.hostUid)
         => /\ last'.result = "ok"
            /\ circle'.participantCount = circle.participantCount
            /\ handRaises' = handRaises
            /\ members'[circle.hostUid].status = "disconnected"
            /\ circle'.hostDisconnectedAt = now
            /\ circle' = [circle EXCEPT !.hostDisconnectedAt = now]
            /\ timers' = timers + 1
            /\ \A u \in Users \ {circle.hostUid} : members'[u] = members[u]]_vars

C5_Witness ==
    /\ last.op = "participant_left" /\ last.user = Host /\ last.result = "ok"
    /\ circle.exists /\ circle.hostUid = Host
    /\ handRaises # {} /\ circle.participantCount > 1
    /\ members[Host].status = "disconnected" /\ timers = 1

\* C6: in every state of an existing circle exactly one member record has
\* role = host, and it is the record keyed by the circle's hostUid.
C6_ExactlyOneHost ==
    circle.exists =>
      {u \in Users : members[u].exists /\ members[u].role = "host"} = {circle.hostUid}

C8_RejoinKeepsRoleAndAnalytics ==
    [][\A u \in Users :
         (/\ circle.exists /\ u # circle.hostUid
          /\ circle.status \in {"scheduled", "live"}
          /\ members[u].exists /\ members[u].status = "left"
          /\ last'.op = "joinCircle" /\ last'.user = u
          /\ last'.arg \in {UNDEF, "listener"})
           => /\ last'.result = "ok"
              /\ members'[u].exists
              /\ members'[u].status = "active"
              /\ members'[u].leftAt = NULL
              /\ members'[u].rejoinCount = members[u].rejoinCount + 1
              /\ members'[u].totalSpeakTime = members[u].totalSpeakTime
              /\ members'[u].handRaiseCount = members[u].handRaiseCount
              /\ members'[u].roleChangeCount = members[u].roleChangeCount
              /\ members'[u].role = members[u].role
              /\ circle'.participantCount = circle.participantCount + 1
              /\ last'.role = members[u].role]_vars

C8_Witness ==
    /\ last.op = "joinCircle" /\ last.user = "u1" /\ last.result = "ok"
    /\ last.arg = "listener" /\ last.from = "left"
    /\ members["u1"].status = "active" /\ members["u1"].rejoinCount = 1
    /\ members["u1"].role = "speaker" /\ members["u1"].leftAt = NULL

C10_JoinEndedRejected ==
    [][(/\ circle.exists /\ circle.status \notin {"scheduled", "live"}
        /\ last'.op = "joinCircle")
         => /\ last'.result \in {"InvalidState", "BadRequest"}
            /\ (last'.arg \in {UNDEF, "listener"} => last'.result = "InvalidState")
            /\ UNCHANGED <<circle, members, handRaises, timers, tokens>>]_vars

C10_Witness ==
    /\ last.op = "joinCircle" /\ last.user = "u1" /\ last.result = "InvalidState"
    /\ circle.exists /\ circle.status = "ended"
    /\ members["u1"].exists

\* C11: leaveCircle by the circle's hostUid is always rejected and changes
\* nothing: the host's member record (its status), the hand raises and
\* participantCount stay as they are.
C11_HostLeaveRejected ==
    [][(circle.exists /\ last'.op = "leaveCircle" /\ last'.user = circle.hostUid)
         => /\ last'.result = "InvalidState"
            /\ UNCHANGED <<circle, members, handRaises, timers, tokens>>]_vars

C11_Witness ==
    /\ last.op = "leaveCircle" /\ last.user = Host /\ last.result = "InvalidState"
    /\ circle.exists /\ circle.hostUid = Host /\ circle.status = "live"
    /\ members[Host].status = "active"
    /\ handRaises # {} /\ circle.participantCount = 2

C13_LeaveAlwaysDecrements ==
    [][\A u \in Users :
         (/\ circle.exists /\ u # circle.hostUid /\ members[u].exists
          /\ last'.op = "leaveCircle" /\ last'.user = u /\ last'.result = "ok")
           => /\ circle'.participantCount = circle.participantCount - 1
              /\ circle' = [circle EXCEPT !.participantCount = circle.participantCount - 1]]_vars

C13_Witness ==
    /\ last.op = "leaveCircle" /\ last.user = "u1" /\ last.result = "ok"
    /\ last.from = "left"
    /\ members["u1"].status = "left" /\ circle.participantCount = 0

\* C14: deleteCircle by the host fails for every status other than scheduled
\* and then leaves the circle, the members and the hand raises unchanged; on a
\* scheduled circle it succeeds, and afterwards neither the circle record, nor
\* a member record, nor a hand-raise record of the circle exists.
C14_DeleteOnlyScheduled ==
    [][(circle.exists /\ last'.op = "deleteCircle" /\ last'.user = circle.hostUid)
         => IF circle.status = "scheduled"
            THEN /\ last'.result = "ok"
                 /\ ~circle'.exists
                 /\ \A u \in Users : ~members'[u].exists
                 /\ handRaises' = {}
            ELSE /\ last'.result = "InvalidState"
                 /\ UNCHANGED <<circle, members, handRaises, timers, tokens>>]_vars

\* the deleted circle had two members: u1 holds a token only after joining
C14_Witness ==
    /\ last.op = "deleteCircle" /\ last.user = Host /\ last.result = "ok"
    /\ last.from = "scheduled"
    /\ "u1" \in tokens
    /\ ~circle.exists /\ handRaises = {}
    /\ \A u \in Users : ~members[u].exists

\* C15: endCircle by the host succeeds exactly on a scheduled or live circle,
\* and then sets status = ended, endedAt = now and endReason = host_ended and
\* nothing else; on an ended circle it is rejected and leaves the circle
\* (status, endedAt, endReason) unchanged.
C15_EndFromScheduledOrLive ==
    [][(circle.exists /\ last'.op = "endCircle" /\ last'.user = circle.hostUid)
         => IF circle.status \in {"scheduled", "live"}
            THEN /\ last'.result = "ok"
                 /\ now # NULL
                 /\ circle' = [circle EXCEPT !.status = "ended", !.endedAt = now,
                                             !.endReason = "host_ended"]
                 /\ UNCHANGED <<members, handRaises>>
            ELSE /\ circle.status = "ended"
                 /\ last'.result = "InvalidState"
                 /\ UNCHANGED <<circle, members, handRaises, timers, tokens>>]_vars

C15_Witness ==
    /\ last.op = "endCircle" /\ last.user = Host /\ last.result = "ok"
    /\ last.from = "scheduled"
    /\ circle.status = "ended" /\ circle.endedAt # NULL
    /\ circle.endReason = "host_ended"

HostOnlyCommands ==
    {"updateCircle", "updateCircleStatus", "endCircle", "deleteCircle",
     "promoteMember", "getAvailableStatuses"}

\* C16: a host-only command (updateCircle, updateCircleStatus, endCircle,
\* deleteCircle, promoteMember, getAvailableStatuses) called by a caller other
\* than the circle's hostUid is rejected and leaves the circle record, every
\* member record and every hand-raise record unchanged.
C16_NonHostRejected ==
    [][(circle.exists /\ last'.op \in HostOnlyCommands /\ last'.user # circle.hostUid)
         => /\ last'.result \in {"Forbidden", "MemberNotFound"}
            /\ (last'.result = "MemberNotFound"
                  => last'.op = "promoteMember" /\ ~members[last'.arg].exists)
            /\ UNCHANGED <<circle, members, handRaises, timers, tokens>>]_vars

C16_Witness ==
    /\ last.op = "promoteMember" /\ last.user = "u1" /\ last.arg = "u1"
    /\ last.result = "Forbidden"
    /\ circle.exists /\ circle.hostUid = Host /\ circle.status = "live"
    /\ members["u1"].exists /\ members["u1"].role = "listener"
    /\ handRaises = {"u1"}

\* C19: a successful createCircle gives a circle with status live when no
\* startAt is given (the stored startAt is then the clock) or startAt <= now,
\* and scheduled otherwise, with hostUid = requester, participantCount = 1,
\* endedAt, endReason and hostDisconnectedAt null, and exactly one member
\* record, the requester's, with role = host and status = active.
C19_CreateResult ==
    [][(last'.op = "createCircle" /\ last'.result = "ok")
         => /\ circle'.exists
            /\ circle'.status = IF circle'.startAt > now THEN "scheduled" ELSE "live"
            /\ circle'.hostUid = last'.user
            /\ circle'.participantCount = 1
            /\ circle'.endedAt = NULL
            /\ circle'.endReason = "null"
            /\ circle'.hostDisconnectedAt = NULL
            /\ {u \in Users : members'[u].exists} = {last'.user}
            /\ members'[last'.user].role = "host"
            /\ members'[last'.user].status = "active"]_vars

C19_Witness ==
    /\ last.op = "createCircle" /\ last.user = Host /\ last.result = "ok"
    /\ circle.exists /\ circle.status = "scheduled" /\ circle.startAt > now
    /\ circle.participantCount = 1
    /\ members[Host].role = "host" /\ members[Host].status = "active"

\* C20: a participant_joined event of a known user adds 1 to participantCount
\* only if the user's member record is absent or its status is not active (and
\* then writes nothing else); when the record has status active the event
\* changes neither participantCount nor any record.
C20_JoinedCountsInactiveOnly ==
    [][\A u \in KnownUsers :
         (circle.exists /\ last'.op = "participant_joined" /\ last'.user = u)
           => /\ last'.result = "ok"
              /\ UNCHANGED <<members, handRaises>>
              /\ IF members[u].exists /\ members[u].status = "active"
                 THEN circle' = circle
                 ELSE circle' = [circle EXCEPT
                                   !.participantCount = circle.participantCount + 1]]_vars

C20_Witness ==
    /\ last.op = "participant_joined" /\ last.user = "u1" /\ last.result = "ok"
    /\ last.from = "left"
    /\ members["u1"].status = "left" /\ circle.participantCount = 2

\* the stored circles of Host created on the calendar day that starts at d
StoredOn(d) ==
    (IF circle.exists /\ circle.hostUid = Host /\ startOfDay(circle.createdAt) = d
     THEN 1 ELSE 0)
    + Sum(others, {t \in Times : startOfDay(t) = d})

\* C17: createCircle by a requester who has 5 stored circles with hostUid =
\* requester and createdAt at or after the local midnight of the current day
\* is rejected with the daily-limit error and creates no circle and no member
\* record; circles created before that midnight do not count: with fewer than
\* 5 of today the request passes the limit.
C17_DailyLimit ==
    [][(last'.op \in {"createCircle", "createCircleCheck"} /\ last'.user = Host)
         => IF StoredOn(startOfDay(now)) >= 5
            THEN /\ last'.result = "DailyLimit"
                 /\ UNCHANGED <<circle, members, handRaises, tokens, created, quota, queue>>
            ELSE last'.result = "ok"]_vars

\* a rejected request on the second day, one older circle being stored too
C17_Witness ==
    /\ last.op \in {"createCircle", "createCircleCheck"} /\ last.user = Host
    /\ last.result = "DailyLimit"
    /\ StoredOn(startOfDay(now)) = 5
    /\ \E d \in Days : d < startOfDay(now) /\ StoredOn(d) > 0

\* C18: for every host and every calendar day at most 5 createCircle calls of
\* that host succeed within the day, however concurrent createCircle requests
\* and deleteCircle calls on the host's scheduled circles interleave.
C18_AtMostFivePerDay ==
    \A d \in Days : succeeded[d] <= 5

\* C21: a participant_left event of a known user who is not the circle's host
\* takes 1 off participantCount if and only if the user's member record exists
\* with status active, deletes the user's hand raise in every case, writes
\* nothing else and never arms the host-disconnection check.
C21_LeftCountsActiveOnly ==
    [][\A u \in KnownUsers :
         (/\ circle.exists /\ u # circle.hostUid
          /\ last'.op = "participant_left" /\ last'.user = u)
           => /\ last'.result = "ok"
              /\ circle' = [circle EXCEPT
                              !.participantCount =
                                 IF members[u].exists /\ members[u].status = "active"
                                 THEN circle.participantCount - 1
                                 ELSE circle.participantCount]
              /\ handRaises' = handRaises \ {u}
              /\ UNCHANGED <<members, timers>>]_vars

\* the event of an active member, in a circle of two
C21_Witness ==
    /\ last.op = "participant_left" /\ last.user = "u1" /\ last.result = "ok"
    /\ last.from = "active"
    /\ circle.exists /\ circle.hostUid = Host /\ circle.participantCount = 1
    /\ members["u1"].status = "active" /\ "u1" \notin handRaises
    /\ members["u1"].handRaiseCount = 0 /\ timers = 0

\* C22: webhook handling is idempotent per event: for each recognized kind of
\* event and in every reachable state, processing the same event a second time
\* right after the first leaves participantCount, every member's status and
\* every member's totalSpeakTime as the first processing left them.
C22_EventIdempotent ==
    [][(/\ includes(handledEvents, last.op) /\ last.result = "ok"
        /\ last'.op = last.op /\ last'.user = last.user /\ last'.arg = last.arg)
         => /\ circle'.participantCount = circle.participantCount
            /\ \A u \in Users :
                 /\ members'[u].status = members[u].status
                 /\ members'[u].totalSpeakTime = members[u].totalSpeakTime]_vars

\* C23: for an audio track of a member, track_published processed at t1 stamps
\* lastSpokeAt = t1, and the next track_unpublished, processed at t2 >= t1,
\* adds t2 - t1 to totalSpeakTime and leaves lastSpokeAt null; a
\* track_unpublished processed while lastSpokeAt is null leaves totalSpeakTime
\* unchanged.  Neither writes anything else.
C23_SpeakTime ==
    [][\A u \in KnownUsers :
         (members[u].exists /\ last'.user = u /\ last'.arg = "audio")
           => /\ (last'.op = "track_published")
                   => members' = [members EXCEPT ![u].lastSpokeAt = now]
              /\ (last'.op = "track_unpublished")
                   => /\ members'[u].lastSpokeAt = NULL
                      /\ members'[u].totalSpeakTime =
                           IF members[u].lastSpokeAt # NULL
                           THEN members[u].totalSpeakTime + (now - members[u].lastSpokeAt)
                           ELSE members[u].totalSpeakTime
                      /\ members' = [members EXCEPT
                                       ![u].lastSpokeAt = NULL,
                                       ![u].totalSpeakTime = members'[u].totalSpeakTime]
              /\ (last'.op \in {"track_published", "track_unpublished"})
                   => UNCHANGED <<circle, handRaises, timers>>]_vars

\* published at 0 and unpublished at 2: two units of speaking time
C23_Witness ==
    /\ last.op = "track_unpublished" /\ last.user = "u1" /\ last.arg = "audio"
    /\ last.result = "ok" /\ now = 2
    /\ members["u1"].totalSpeakTime = 2 /\ members["u1"].lastSpokeAt = NULL

\* the four kinds of event the service recognizes
RecognizedKinds ==
    {"participant_joined", "participant_left", "track_published", "track_unpublished"}

\* C24: webhook ingestion rejects a request with a missing or an invalid
\* signature as unauthorized, rejects an empty or non-JSON body as a bad
\* request, and otherwise answers received for the four recognized kinds of
\* event and ignored for any other kind, echoing the kind; a rejected request
\* changes no state.  (last.from is the Authorization header, last.role the
\* body, last.arg the kind of the event.)
C24_WebhookResponses ==
    [][(last'.op = "webhook")
         => /\ (last'.from = "missing") => last'.result = "Unauthorized"
            /\ (last'.from = "invalid" /\ last'.role = "json")
                 => last'.result = "Unauthorized"
            /\ (last'.from = "valid" /\ last'.role \in {"absent", "empty", "notjson"})
                 => last'.result = "BadRequest"
            /\ (last'.from = "valid" /\ last'.role = "json")
                 => last'.result = IF last'.arg \in RecognizedKinds
                                   THEN "received" ELSE "ignored"
            /\ (last'.result \in {"Unauthorized", "BadRequest"})
                 => UNCHANGED <<circle, members, handRaises, timers, tokens, queue>>]_vars

\* C25: a verified webhook event whose kind is none of participant_joined,
\* participant_left, track_published, track_unpublished is acknowledged
\* (ignored, with its kind) and changes no circle, member or hand-raise
\* record, arms no timer and leaves nothing for a handler to run.
C25_OtherKindIgnored ==
    [][(/\ last'.op = "webhook" /\ last'.from = "valid" /\ last'.role = "json"
        /\ last'.arg \notin RecognizedKinds)
         => /\ last'.result = "ignored"
            /\ UNCHANGED <<circle, members, handRaises, timers, tokens, queue>>]_vars

\* room_started acknowledged for a live circle with a member, one event waiting
C25_Witness ==
    /\ last.op = "webhook" /\ last.arg = "room_started" /\ last.result = "ignored"
    /\ last.from = "valid" /\ last.role = "json"
    /\ circle.exists /\ circle.status = "live" /\ members["u1"].exists
    /\ Cardinality(queue) = 1 /\ timers = 0

\* C26: getCircleDetails returns as members exactly the member records of the
\* circle whose status is active, null or absent, never one with status left
\* or disconnected, together with all the hand raises stored for the circle.
C26_DetailsActiveMembers ==
    (last.op = "getCircleDetails" /\ last.result = "ok")
      => /\ last.ret.members =
              {u \in Users : /\ members[u].exists
                             /\ members[u].status \in {"active", "null", UNDEF}}
         /\ \A u \in last.ret.members : members[u].status \notin {"left", "disconnected"}
         /\ last.ret.handRaises = handRaises

\* the host disconnected, u1 left with a hand raised again, u2 without a status
C26_Witness ==
    /\ last.op = "getCircleDetails" /\ last.result = "ok"
    /\ members[Host].status = "disconnected" /\ members["u1"].status = "left"
    /\ members["u2"].exists /\ members["u2"].status = UNDEF
    /\ last.ret.members = {"u2"} /\ last.ret.handRaises = {"u1"}

\* C27: promotion respects maxSpeakers: in every reachable state the number
\* of members of the circle with role = speaker is at most the circle's
\* maxSpeakers.
C27_SpeakersWithinMax ==
    circle.exists
      => Cardinality({u \in Users : members[u].exists /\ members[u].role = "speaker"})
           <= circle.maxSpeakers

\* C28: updateCircle by the host is accepted only before the room starts: on
\* a circle whose status is live or ended it changes none of the circle's
\* fields (title, startAt, status among them).
C28_UpdateOnlyBeforeLive ==
    [][(/\ circle.exists
        /\ circle.status \in {"live", "ended"}
        /\ last'.op = "updateCircle"
        /\ last'.user = circle.hostUid)
         => circle' = circle]_vars

BeforeIncrement == {c \in Calls : calls[c].pc = "increment"}

\* C30: participantCount is changed by atomic increments only, so when
\* joinCircle requests of distinct users without a member record run
\* concurrently, in any interleaving of their reads and writes, every request
\* that has done its increment has added exactly one to participantCount and
\* one active member record: once all requests are complete the count has
\* grown by the number of new member records.
C30_ConcurrentJoinsCount ==
    circle.exists =>
      /\ \A u \in Users \ {Host} : members[u].exists => members[u].status = "active"
      /\ circle.participantCount
           = 1 + Cardinality({u \in Users \ {Host} : members[u].exists})
               - Cardinality(BeforeIncrement)

\* the two requests overlapped from their first read to their last write,
\* and the count went from 1 to 3
C30_Witness ==
    /\ \A c \in Calls : calls[c].pc = "mint" /\ ~calls[c].existingMember.exists
    /\ calls["c1"].userId = "u1" /\ calls["c2"].userId = "u2"
    /\ calls["c1"].circle.participantCount = 1 /\ calls["c2"].circle.participantCount = 1
    /\ members["u1"].status = "active" /\ members["u2"].status = "active"
    /\ circle.participantCount = 3

\* C31: every participant_left of the host arms one more deferred check, so two
\* of them before the first window elapses leave two checks armed; a check
\* that fires on a circle an earlier check has already ended leaves status and
\* endReason as the earlier check set them.
C31_SecondCheckSameOutcome ==
    [][/\ (last'.op = "participant_left" /\ last'.user = Host /\ last'.result = "ok")
            => timers' = timers + 1
       /\ (/\ last'.op = "timeout"
           /\ circle.status = "ended"
           /\ circle.endReason = "host_disconnected")
            => /\ timers' = timers - 1
               /\ circle'.status = "ended"
               /\ circle'.endReason = "host_disconnected"]_vars

\* the last armed check has fired on a host still disconnected and a circle
\* already ended for that reason
C31_Witness ==
    /\ last.op = "timeout" /\ last.result = "ended" /\ last.from = "ended"
    /\ timers = 0
    /\ members[Host].status = "disconnected"
    /\ circle.status = "ended" /\ circle.endReason = "host_disconnected"

\* C32: a verified event of a recognized kind is answered received before its
\* handler runs (the event waits, no record has changed), whatever the handler
\* will do with it; a handler that fails changes no circle, member or
\* hand-raise record and arms no check, and takes only its own event off the
\* waiting events, so that later events are still accepted and handled.
C32_HandlerFailureContained ==
    [][/\ (/\ last'.op = "webhook" /\ last'.from = "valid" /\ last'.role = "json"
           /\ last'.arg \in RecognizedKinds)
            => /\ last'.result = "received"
               /\ \E e \in queue' : e.kind = last'.arg /\ e.identity = last'.user
               /\ queue \subseteq queue'
               /\ UNCHANGED <<circle, members, handRaises, timers>>
       /\ (last'.op \in RecognizedKinds /\ last'.result # "ok")
            => /\ UNCHANGED <<circle, members, handRaises, timers, tokens>>
               /\ \E e \in queue : /\ e.kind = last'.op /\ e.identity = last'.user
                                   /\ queue' = queue \ {e}]_vars

\* the handler of an event of u2, who is no known user, has failed while an
\* event of u1 is still waiting
C32_Witness ==
    /\ last.op = "participant_joined" /\ last.user = "u2" /\ last.result = "UserNotFound"
    /\ \E e \in queue : e.identity = "u1"
    /\ circle.exists /\ circle.participantCount = 3

\* C33: the availableStatuses that getAvailableStatuses returns to the host are
\* exactly the statuses an updateCircleStatus by the host would accept: an
\* updateCircleStatus to s that directly follows the query succeeds if and only
\* if s is in the list the query returned; for an ended circle the list is empty.
C33_AvailableIffAccepted ==
    [][/\ (/\ last.op = "getAvailableStatuses" /\ last.result = "ok"
           /\ last'.op = "updateCircleStatus" /\ last'.user = last.user)
            => (last'.result = "ok" <=> includes(last.ret, last'.arg))
       /\ (last'.op = "getAvailableStatuses" /\ last'.result = "ok")
            => /\ \A i \in DOMAIN last'.ret : last'.ret[i] \in Statuses
               /\ circle.status = "ended" => last'.ret = <<>>]_vars

\* the host of a scheduled circle was told live and ended
C33_Witness ==
    /\ last.op = "getAvailableStatuses" /\ last.result = "ok" /\ last.user = Host
    /\ circle.status = "scheduled"
    /\ last.ret = <<"live", "ended">>

\* C34: participantCount of an existing circle is never negative, whatever
\* sequence of join, leave, rejoin, participant_joined and participant_left
\* operations, duplicates included, has run.
C34_CountNeverNegative ==
    circle.exists => circle.participantCount >= 0

\* C35: while only client commands run, one at a time and to completion
\* (createCircle, joinCircle, leaveCircle by a user whose record is active,
\* promoteMember, updateCircle, updateCircleStatus, endCircle) and no webhook
\* event, participantCount equals the number of member records of the circle
\* with status active.
C35_CountIsActiveMembers ==
    circle.exists
      => circle.participantCount
           = Cardinality({u \in Users : members[u].exists /\ members[u].status = "active"})

\* u1 has left and come back, u2 has left: the host and u1 are counted
C35_Witness ==
    /\ last.op = "joinCircle" /\ last.user = "u1" /\ last.from = "left"
    /\ members["u1"].status = "active" /\ members["u1"].rejoinCount = 1
    /\ members["u2"].status = "left"
    /\ circle.participantCount = 2

\* C36: once a circle has status ended, its endedAt and endReason never change
\* again: no later operation, a pending deferred host-disconnect check that
\* fires after the host ended the circle included, overwrites endReason or
\* re-stamps endedAt.
C36_EndIsFinal ==
    [][(circle.exists /\ circle.status = "ended" /\ circle'.exists)
         => /\ circle'.endedAt = circle.endedAt
            /\ circle'.endReason = circle.endReason]_vars

\* C37: in every reachable state a member record with status disconnected
\* belongs to the circle's hostUid and a member record with status left does
\* not: only the host can be disconnected, and the host can never be left.
C37_DisconnectedIsHostLeftIsNot ==
    \A u \in Users :
      members[u].exists
        => /\ members[u].status = "disconnected" => (circle.exists /\ u = circle.hostUid)
           /\ members[u].status = "left" => (circle.exists /\ u # circle.hostUid)

\* the host is disconnected and u1 has left, after a participant_left of each
C37_Witness ==
    /\ members[Host].status = "disconnected" /\ circle.hostUid = Host
    /\ members["u1"].status = "left"
    /\ last.op = "participant_left" /\ last.user = "u1" /\ last.result = "ok"

\* C38: a member's totalSpeakTime never decreases, under any interleaving of
\* concurrently running track_published and track_unpublished handlers for
\* that member, duplicated deliveries included, the clock being non-decreasing.
C38_SpeakTimeMonotone ==
    [][\A u \in Users :
         (members[u].exists /\ members'[u].exists)
           => members'[u].totalSpeakTime >= members[u].totalSpeakTime]_vars

\* C39: when the same user, without a member record, issues two joinCircle
\* calls that run concurrently, then once both have completed there is one
\* member record of that user and participantCount has grown by exactly 1.
C39_SameUserCountedOnce ==
    (/\ circle.exists
     /\ \A c \in Calls : calls[c].pc = "idle"
     /\ members["u1"].exists)
      => /\ members["u1"].status = "active"
         /\ circle.participantCount = 2

\* C40: after a successful deleteCircle, once every operation that was in
\* flight during it has completed, no member record and no hand-raise record
\* exists under the deleted circle's id, for every interleaving of deleteCircle
\* with a concurrent joinCircle.
C40_NothingLeftAfterDelete ==
    (created /\ ~circle.exists /\ \A c \in Calls : calls[c].pc = "idle")
      => /\ \A u \in Users : ~members[u].exists
         /\ handRaises = {}
====
